---- MODULE Spec2Model ----
(***************************************************************************)
(* Model of the Formant client (formant_client.py): the retry decorator    *)
(* formant_client_retry_on_failure, the cached authentication headers of   *)
(* FormantClient, query_robots and the paginated                           *)
(* get_task_list_for_device_sync.  The HTTP transport (requests.post) is   *)
(* the environment: every request is answered nondeterministically.        *)
(*                                                                         *)
(* Two specifications:                                                     *)
(*   RetrySpec  the decorator around an arbitrary operation, for every     *)
(*              max_retries in 1..MaxAttempts and both propegrate_error    *)
(*   Spec       one FormantClient instance on which the public operations  *)
(*              are called one after the other                             *)
(***************************************************************************)
EXTENDS Integers, Sequences, FiniteSets, TLC

\* ---------------------------------------------------------------- bounds
MaxAttempts == 4        \* RetrySpec: max_retries ranges over 1..MaxAttempts
MaxCalls == 2           \* Spec: public calls made on the client instance
MaxFullPages == 3       \* Spec: the backend answers at most this many full pages in a row
MaxThreads == 2         \* ConcSpec: callers that use the client concurrently
MaxHeaderRequests == 2  \* ConcSpec: header requests made by each caller

\* ------------------------------------------------------ program constants
NUM_RETRIES == 5
page_size == 100

\* ------------------------------------------------------------ exceptions
\* FormantClientRequestError.__init__: retryable defaults to True
DefaultRetryable == TRUE

FormantClientRequestError(message, retryable) ==
    [type |-> "FormantClientRequestError", message |-> message, retryable |-> retryable]

\* any exception that is not a FormantClientRequestError (it has no retryable attribute)
OtherException(type, message) == [type |-> type, message |-> message]

IsRequestError(e) == e.type = "FormantClientRequestError"

\* outcomes of a call: a returned value or a raised exception
Return(v) == [kind |-> "return", value |-> v]
Raise(e) == [kind |-> "raise", exc |-> e]
NoOutcome == [kind |-> "none"]

\* ------------------------------------------------------- retry decorator
\* the error raised after the loop:
\*   raise FormantClientRequestError(f"Request failed after {max_retries} retries")
ExhaustedMessage(n) == <<"Request failed after ", ToString(n), " retries">>

ExhaustedError(n) == FormantClientRequestError(ExhaustedMessage(n), DefaultRetryable)

AfterLoop_inverted(n, propegrate) ==
    IF propegrate THEN Return("None") ELSE Raise(ExhaustedError(n))

\* lines 37-42: the code after the for loop
AfterLoop(n, propegrate) ==
    IF propegrate THEN Raise(ExhaustedError(n)) ELSE Return("None")

\* the except clause catches FormantClientRequestError only
Caught(out) == out.kind = "raise" /\ IsRequestError(out.exc)

Swallowed_ignoringFlag(out) == Caught(out)

\* the except clause swallows the error and the loop goes on
Swallowed(out) == Caught(out) /\ out.exc.retryable

\* number of logging.warning calls made by one iteration whose func call ended in out
WarningsOf(out) == IF Swallowed(out) THEN 1 ELSE 0

WrapperIteration_noReturn(out, idx, n, propegrate) ==
    IF out.kind = "raise" /\ ~Swallowed(out)
    THEN [ctl |-> "done", out |-> out]
    ELSE IF idx + 1 < n
         THEN [ctl |-> "next", out |-> NoOutcome]
         ELSE [ctl |-> "done", out |-> AfterLoop(n, propegrate)]

\* One iteration i of `for i in range(max_retries)` whose func call ended in
\* out, followed by the code after the loop when that iteration was the last:
\* "next" (another iteration follows) or the outcome of the wrapper.
WrapperIteration(out, idx, n, propegrate) ==
    IF ~Swallowed(out)
    THEN [ctl |-> "done", out |-> out]              \* return func(...) / raise e / uncaught
    ELSE IF idx + 1 < n
         THEN [ctl |-> "next", out |-> NoOutcome]
         ELSE [ctl |-> "done", out |-> AfterLoop(n, propegrate)]

\* ----------------------------------------------------- HTTP environment
Tokens == {"tok1", "tok2"}
FailureStatuses == {401, 500}
ShortPageLengths == {0, 37, 50}
RobotLists == {<<>>, <<"dev-1", "dev-2">>}
TagFilters == {<<>>, [site |-> <<"a">>]}
DeviceIds == {"dev-1"}

\* a decoded body that lacks the expected keys
Malformed == [message |-> "try again later"]

ErrorText(status) == IF status = 401 THEN "unauthorized" ELSE "internal error"

\* a response: status_code, json() and text
Response(status, json, text) == [kind |-> "response", status |-> status, json |-> json, text |-> text]

\* requests.post raises instead of returning a response
TransportError == [kind |-> "raise"]

FailureResponses == {Response(s, Malformed, ErrorText(s)) : s \in FailureStatuses}

LoginResponses ==
    {Response(200, [authentication |-> [accessToken |-> t]], "ok") : t \in Tokens}
    \cup {Response(200, Malformed, "ok"), TransportError}
    \cup FailureResponses

QueryResponses ==
    {Response(200, [items |-> r], "ok") : r \in RobotLists}
    \cup {Response(200, Malformed, "ok"), TransportError}
    \cup FailureResponses

\* the items of the page of n events answered at offset
PageItems(offset, n) == [k \in 1..n |-> offset + k]

\* page lengths the backend may answer at offset
PageLengths(offset) ==
    ShortPageLengths \cup (IF offset < MaxFullPages * page_size THEN {page_size} ELSE {})

PageResponses(offset) ==
    {Response(200, [items |-> PageItems(offset, n)], "ok") : n \in PageLengths(offset)}
    \cup {Response(200, Malformed, "ok"), TransportError}
    \cup FailureResponses

\* A backend is either unreliable (any answer to any request) or stable: it
\* holds a fixed list of robots and a fixed number of events and answers
\* every request 200, a page request at offset with the events from offset on,
\* at most page_size of them.
Unreliable == [stable |-> FALSE]

EventCounts == {0, 37, 100, 250, MaxFullPages * page_size}

StableBackends ==
    {[stable |-> TRUE, events |-> n, robots |-> r] : n \in EventCounts, r \in RobotLists}

Min(a, b) == IF a < b THEN a ELSE b
Max(a, b) == IF a > b THEN a ELSE b

ConsistentLength(events, offset) == Min(page_size, Max(0, events - offset))

LoginAnswers(b) ==
    IF b.stable
    THEN {Response(200, [authentication |-> [accessToken |-> t]], "ok") : t \in Tokens}
    ELSE LoginResponses

QueryAnswers(b) ==
    IF b.stable THEN {Response(200, [items |-> b.robots], "ok")} ELSE QueryResponses

PageAnswers(b, offset) ==
    IF b.stable
    THEN {Response(200, [items |-> PageItems(offset, ConsistentLength(b.events, offset))], "ok")}
    ELSE PageResponses(offset)

\* ---------------------------------------------------------------- state
VARIABLES
    \* RetrySpec: one decorated operation
    max_retries,        \* decorator argument
    propegrate_error,   \* decorator argument
    w_pc,               \* "idle" | "running" | "done"
    i,                  \* loop variable of the wrapper
    func_calls,         \* invocations of func in the current wrapper call
    warnings,           \* logging.warning calls in the current wrapper call
    retryable_failures, \* func calls of the current wrapper call that raised a retryable error
    func_out,           \* outcome of the latest func call
    w_out,              \* outcome of the wrapper call
    \* Spec: one FormantClient instance and the call in progress on it
    authenticated_headers,  \* self._authenticated_headers
    op,                 \* the public operation called: "none" | "query_robots" | "get_task_list_for_device_sync"
    args,               \* its arguments
    pc,                 \* "idle" | "headers" | "login" | "request" | "done"
    i_call,             \* loop variable of the wrapper of the public operation
    i_auth,             \* loop variable of the wrapper of _authenticate
    page_offset,        \* local of get_task_list_for_device_sync
    task_summaries,     \* local of get_task_list_for_device_sync
    result,             \* outcome of the public call
    calls,              \* public calls made on the instance
    login_requests,     \* POST /auth/login requests issued by the instance
    login_ok,           \* those answered 200 with a decodable body
    call_logins,        \* POST /auth/login requests issued during the current call
    call_requests,      \* data requests issued during the current call
    call_warnings,      \* logging.warning calls during the current call
    returned_headers,   \* the values _get_authenticated_headers has returned
    attempt_pages,      \* pages received by the current attempt, in request order
    attempt_offsets,    \* offsets requested by the current attempt, in request order
    last_exchange,      \* the latest HTTP request and its answer
    caught,             \* the error the wrapper of the public operation caught last
    issued_tokens,      \* the access tokens of the logins answered 200
    prev_call,          \* stable backend: the public call made before the current one, as it ended
    \* the environment
    backend,            \* the backend the client talks to
    \* ConcSpec: callers sharing the instance, each inside _get_authenticated_headers
    t_pc,               \* where each caller is: "idle" | "check" | "post" | "wait" | "return"
    t_calls,            \* header requests each caller has made
    t_logins,           \* POST /auth/login requests each caller has issued
    t_got               \* the headers each caller was returned last

retryVars == <<max_retries, propegrate_error, w_pc, i, func_calls, warnings,
               retryable_failures, func_out, w_out>>

clientVars == <<authenticated_headers, op, args, pc, i_call, i_auth, page_offset,
                task_summaries, result, calls, login_requests, login_ok, call_logins,
                call_requests, call_warnings, returned_headers, attempt_pages,
                attempt_offsets, last_exchange, caught, issued_tokens, prev_call>>

threadVars == <<t_pc, t_calls, t_logins, t_got>>

vars == <<retryVars, clientVars, backend, threadVars>>

\* what the actions of the client leave alone, and those of the lone wrapper
notClient == <<retryVars, backend, threadVars>>
notWrapper == <<clientVars, backend, threadVars>>

Threads == 1..MaxThreads

\* no caller has entered the instance
ThreadsUnused ==
    /\ t_pc = [t \in Threads |-> "idle"]
    /\ t_calls = [t \in Threads |-> 0]
    /\ t_logins = [t \in Threads |-> 0]
    /\ t_got = [t \in Threads |-> <<>>]

\* the client is not used in RetrySpec, the lone wrapper not in Spec
ClientUnused ==
    /\ authenticated_headers = <<>>
    /\ op = "none"
    /\ args = <<>>
    /\ pc = "idle"
    /\ i_call = 0
    /\ i_auth = 0
    /\ page_offset = 0
    /\ task_summaries = <<>>
    /\ result = NoOutcome
    /\ calls = 0
    /\ login_requests = 0
    /\ login_ok = 0
    /\ call_logins = 0
    /\ call_requests = 0
    /\ call_warnings = 0
    /\ returned_headers = {}
    /\ attempt_pages = <<>>
    /\ attempt_offsets = <<>>
    /\ last_exchange = [endpoint |-> "none"]
    /\ caught = [type |-> "none"]
    /\ issued_tokens = {}
    /\ prev_call = [op |-> "none"]

WrapperUnused ==
    /\ max_retries = NUM_RETRIES
    /\ propegrate_error = TRUE
    /\ w_pc = "idle"
    /\ i = 0
    /\ func_calls = 0
    /\ warnings = 0
    /\ retryable_failures = 0
    /\ func_out = NoOutcome
    /\ w_out = NoOutcome

\* ------------------------------------------------------------ RetrySpec
Values == {"v1", "v2"}
Messages == {<<"boom">>, <<"bang">>}

\* what the wrapped operation can do on one invocation
FuncOutcomes ==
    {Return(v) : v \in Values}
    \cup {Raise(FormantClientRequestError(m, r)) : m \in Messages, r \in BOOLEAN}
    \cup {Raise(OtherException("KeyError", m)) : m \in Messages}

RetryInit ==
    /\ max_retries \in 1..MaxAttempts
    /\ propegrate_error \in BOOLEAN
    /\ w_pc = "idle"
    /\ i = 0
    /\ func_calls = 0
    /\ warnings = 0
    /\ retryable_failures = 0
    /\ func_out = NoOutcome
    /\ w_out = NoOutcome
    /\ ClientUnused
    /\ backend = Unreliable
    /\ ThreadsUnused

\* wrapper(*args, **kwargs) is entered
WrapperCall ==
    /\ w_pc \in {"idle", "done"}
    /\ w_pc' = "running"
    /\ i' = 0
    /\ func_calls' = 0
    /\ warnings' = 0
    /\ retryable_failures' = 0
    /\ func_out' = NoOutcome
    /\ w_out' = NoOutcome
    /\ UNCHANGED <<max_retries, propegrate_error, notWrapper>>

\* one iteration of the loop: func is invoked and ends in out
WrapperAttempt ==
    /\ w_pc = "running"
    /\ i < max_retries
    /\ \E out \in FuncOutcomes :
         LET step == WrapperIteration(out, i, max_retries, propegrate_error) IN
         /\ func_out' = out
         /\ func_calls' = func_calls + 1
         /\ warnings' = warnings + WarningsOf(out)
         /\ retryable_failures' = retryable_failures + (IF Swallowed(out) THEN 1 ELSE 0)
         /\ IF step.ctl = "next"
            THEN /\ i' = i + 1
                 /\ UNCHANGED <<w_pc, w_out>>
            ELSE /\ w_pc' = "done"
                 /\ w_out' = step.out
                 /\ UNCHANGED i
    /\ UNCHANGED <<max_retries, propegrate_error, notWrapper>>

RetryNext == WrapperCall \/ WrapperAttempt

RetrySpec == RetryInit /\ [][RetryNext]_vars

\* ----------------------------------------------------------------- Spec
\* what requests.post raises when the transport fails
ConnectionError == OtherException("ConnectionError", <<"connection failed">>)

\* what indexing a decoded body by a key it lacks raises
KeyError(key) == OtherException("KeyError", <<key>>)

Cached_never(headers) == FALSE

Cached_always(headers) == TRUE

\* line 73: len(self._authenticated_headers) > 0
Cached(headers) == Cardinality(DOMAIN headers) > 0

\* lines 89-92: the headers built from the access token
Headers(token) ==
    ("authorization" :> <<"Bearer ", token>>) @@ ("content-type" :> <<"application/json">>)

\* lines 76-80: the body of the login request
LoginBody == [email |-> "email", password |-> "password", tokenExpirationSeconds |-> 86400]

\* lines 82-96: how a call of _authenticate that found the cache empty ends
\* when the login request is answered by resp
Authenticate(resp) ==
    IF resp.kind = "raise" THEN Raise(ConnectionError)
    ELSE IF resp.status = 200
         THEN IF "authentication" \in DOMAIN resp.json
              THEN Return("None")
              ELSE Raise(KeyError("authentication"))
         ELSE Raise(FormantClientRequestError(<<"Failed to authenticate... ", resp.text>>,
                                              DefaultRetryable))

\* lines 111-114: the body of the devices/query request
QueryBody(a) ==
    IF a.enabled_only THEN [tags |-> a.tags, enabled |-> TRUE] ELSE [tags |-> a.tags]

QueryRobots_fatalMalformed(resp) ==
    IF resp.kind = "raise" THEN Raise(ConnectionError)
    ELSE IF resp.status = 200
         THEN IF "items" \in DOMAIN resp.json
              THEN Return(resp.json.items)
              ELSE Raise(FormantClientRequestError(<<"Failed to query robots: ", "'items'">>,
                                                   FALSE))
         ELSE Raise(FormantClientRequestError(<<"Failed to query robots... ", resp.text>>,
                                              DefaultRetryable))

\* the items are collected in a list that outlives the call
QueryRobots_accumulating(resp) ==
    IF resp.kind = "response" /\ resp.status = 200 /\ "items" \in DOMAIN resp.json
    THEN Return((IF prev_call.op = "query_robots" /\ prev_call.result.kind = "return"
                 THEN prev_call.result.value ELSE <<>>) \o resp.json.items)
    ELSE Raise(ConnectionError)

\* lines 122-130: how a call of query_robots ends when devices/query is answered by resp
QueryRobots(resp) ==
    IF resp.kind = "raise" THEN Raise(ConnectionError)
    ELSE IF resp.status = 200
         THEN IF "items" \in DOMAIN resp.json
              THEN Return(resp.json.items)
              ELSE Raise(FormantClientRequestError(<<"Failed to query robots: ", "'items'">>,
                                                   DefaultRetryable))
         ELSE Raise(FormantClientRequestError(<<"Failed to query robots... ", resp.text>>,
                                              DefaultRetryable))

\* lines 150-155: the body of the events/query request
PageParams(deviceId, offset) ==
    [eventTypes |-> <<"task-summary">>, count |-> page_size, offset |-> offset,
     deviceIds |-> <<deviceId>>]

\* the page request was answered by a page of items
PageReceived(resp) ==
    resp.kind = "response" /\ resp.status = 200 /\ "items" \in DOMAIN resp.json

\* what was collected so far is returned when a page request fails
PageFailure_partial(resp) == Return(task_summaries)

\* lines 157-166: how an attempt of get_task_list_for_device_sync ends when a
\* page request is not answered by a page of items.  On a status other than
\* 200 the message of the error to raise is formatted from response.status,
\* an attribute that requests.Response does not have, so that formatting the
\* message raises AttributeError before any FormantClientRequestError exists.
PageFailure(resp) ==
    IF resp.kind = "raise" THEN Raise(ConnectionError)
    ELSE IF resp.status # 200
         THEN Raise(OtherException("AttributeError",
                                   <<"'Response' object has no attribute 'status'">>))
         ELSE Raise(KeyError("items"))

Extend_overwrite(summaries, items) == items

\* line 166: task_summaries.extend(items)
Extend(summaries, items) == summaries \o items

ShortPage_emptyOnly(items) == Len(items) = 0

\* line 168: len(items) < page_size
ShortPage(items) == Len(items) < page_size

Ops == {"query_robots", "get_task_list_for_device_sync"}

ArgsOf(o) ==
    IF o = "query_robots"
    THEN {[tags |-> t, enabled_only |-> b] : t \in TagFilters, b \in BOOLEAN}
    ELSE {[deviceId |-> d] : d \in DeviceIds}

Init == ClientUnused /\ WrapperUnused /\ backend = Unreliable /\ ThreadsUnused

\* The func call of the wrapper of the public operation ended in out, with
\* local variables locals, after inner logging.warning calls: the wrapper
\* either starts the next attempt (func is entered again, its locals are
\* fresh) or ends the call.
AttemptEnds(out, inner, locals) ==
    LET step == WrapperIteration(out, i_call, NUM_RETRIES, TRUE) IN
    /\ call_warnings' = call_warnings + inner + WarningsOf(out)
    /\ caught' = IF Caught(out) THEN out.exc ELSE caught
    /\ IF step.ctl = "next"
       THEN /\ i_call' = i_call + 1
            /\ pc' = "headers"
            /\ page_offset' = 0
            /\ task_summaries' = <<>>
            /\ attempt_pages' = <<>>
            /\ attempt_offsets' = <<>>
            /\ UNCHANGED result
       ELSE /\ pc' = "done"
            /\ result' = step.out
            /\ page_offset' = locals.page_offset
            /\ task_summaries' = locals.task_summaries
            /\ attempt_pages' = locals.attempt_pages
            /\ attempt_offsets' = locals.attempt_offsets
            /\ UNCHANGED i_call

Locals == [page_offset |-> page_offset, task_summaries |-> task_summaries,
           attempt_pages |-> attempt_pages, attempt_offsets |-> attempt_offsets]

\* a public operation is called: its wrapper enters func for the first attempt
Call ==
    /\ pc \in {"idle", "done"}
    /\ calls < MaxCalls
    /\ \E o \in Ops : \E a \in ArgsOf(o) :
         /\ op' = o
         /\ args' = a
    /\ calls' = calls + 1
    /\ pc' = "headers"
    /\ i_call' = 0
    /\ i_auth' = 0
    /\ page_offset' = 0
    /\ task_summaries' = <<>>
    /\ attempt_pages' = <<>>
    /\ attempt_offsets' = <<>>
    /\ result' = NoOutcome
    /\ call_logins' = 0
    /\ call_requests' = 0
    /\ call_warnings' = 0
    /\ caught' = [type |-> "none"]
    \* calls are compared with one another against a stable backend only
    /\ prev_call' = IF backend.stable /\ pc = "done"
                    THEN [op |-> op, args |-> args, result |-> result,
                          body |-> last_exchange.body, logins |-> call_logins]
                    ELSE prev_call
    /\ UNCHANGED <<authenticated_headers, login_requests, login_ok, returned_headers,
                   last_exchange, issued_tokens, notClient>>

\* _get_authenticated_headers is called for the next request: the wrapper of
\* _authenticate enters func, which returns at once when the headers are cached
GetHeaders ==
    /\ pc = "headers"
    /\ i_auth' = 0
    /\ IF Cached(authenticated_headers)
       THEN /\ pc' = "request"
            /\ returned_headers' = returned_headers \cup {authenticated_headers}
       ELSE /\ pc' = "login"
            /\ UNCHANGED returned_headers
    /\ UNCHANGED <<authenticated_headers, op, args, i_call, page_offset, task_summaries,
                   result, calls, login_requests, login_ok, call_logins, call_requests,
                   call_warnings, attempt_pages, attempt_offsets, last_exchange, caught,
                   issued_tokens, prev_call, notClient>>

\* _authenticate posts /auth/login and the request is answered
LoginRequest ==
    /\ pc = "login"
    /\ \E resp \in LoginAnswers(backend) :
         LET out == Authenticate(resp)
             step == WrapperIteration(out, i_auth, NUM_RETRIES, TRUE)
         IN
         /\ login_requests' = login_requests + 1
         /\ call_logins' = call_logins + 1
         /\ login_ok' = login_ok + (IF out.kind = "return" THEN 1 ELSE 0)
         /\ authenticated_headers' =
                IF out.kind = "return"
                THEN Headers(resp.json.authentication.accessToken)
                ELSE authenticated_headers
         /\ issued_tokens' =
                IF out.kind = "return"
                THEN issued_tokens \cup {resp.json.authentication.accessToken}
                ELSE issued_tokens
         /\ last_exchange' = [endpoint |-> "/auth/login", headers |-> <<>>,
                              body |-> LoginBody, response |-> resp]
         /\ IF step.ctl = "next"
            THEN \* the next iteration enters _authenticate again
                 /\ i_auth' = i_auth + 1
                 /\ pc' = IF Cached(authenticated_headers') THEN "request" ELSE "login"
                 /\ call_warnings' = call_warnings + WarningsOf(out)
                 /\ UNCHANGED <<i_call, page_offset, task_summaries, attempt_pages,
                                attempt_offsets, result, caught, returned_headers>>
            ELSE IF step.out.kind = "return"
            THEN \* _get_authenticated_headers returns the headers
                 /\ pc' = "request"
                 /\ returned_headers' = returned_headers \cup {authenticated_headers'}
                 /\ UNCHANGED <<i_auth, i_call, page_offset, task_summaries, attempt_pages,
                                attempt_offsets, result, caught, call_warnings>>
            ELSE \* _authenticate raises into the func of the public operation
                 /\ AttemptEnds(step.out, WarningsOf(out), Locals)
                 /\ UNCHANGED <<i_auth, returned_headers>>
    /\ UNCHANGED <<op, args, calls, call_requests, prev_call, notClient>>

\* query_robots posts /devices/query and the request is answered
QueryRequest ==
    /\ pc = "request"
    /\ op = "query_robots"
    /\ \E resp \in QueryAnswers(backend) :
         /\ last_exchange' = [endpoint |-> "/devices/query", headers |-> authenticated_headers,
                              body |-> QueryBody(args), response |-> resp]
         /\ AttemptEnds(QueryRobots(resp), 0, Locals)
    /\ call_requests' = call_requests + 1
    /\ UNCHANGED <<authenticated_headers, op, args, i_auth, calls, login_requests, login_ok,
                   call_logins, returned_headers, issued_tokens, prev_call, notClient>>

\* get_task_list_for_device_sync posts /events/query for the page at
\* page_offset and the request is answered
PageRequest ==
    /\ pc = "request"
    /\ op = "get_task_list_for_device_sync"
    /\ \E resp \in PageAnswers(backend, page_offset) :
         LET offsets == Append(attempt_offsets, page_offset) IN
         /\ last_exchange' = [endpoint |-> "/events/query", headers |-> authenticated_headers,
                              body |-> PageParams(args.deviceId, page_offset),
                              response |-> resp]
         /\ IF PageReceived(resp)
            THEN LET items == resp.json.items
                     summaries == Extend(task_summaries, items)
                     pages == Append(attempt_pages, items)
                 IN
                 IF ShortPage(items)
                 THEN AttemptEnds(Return(summaries), 0,
                                  [page_offset |-> page_offset, task_summaries |-> summaries,
                                   attempt_pages |-> pages, attempt_offsets |-> offsets])
                 ELSE /\ page_offset' = page_offset + page_size
                      /\ task_summaries' = summaries
                      /\ attempt_pages' = pages
                      /\ attempt_offsets' = offsets
                      /\ pc' = "headers"
                      /\ UNCHANGED <<i_call, result, call_warnings, caught>>
            ELSE AttemptEnds(PageFailure(resp), 0,
                             [page_offset |-> page_offset, task_summaries |-> task_summaries,
                              attempt_pages |-> attempt_pages, attempt_offsets |-> offsets])
    /\ call_requests' = call_requests + 1
    /\ UNCHANGED <<authenticated_headers, op, args, i_auth, calls, login_requests, login_ok,
                   call_logins, returned_headers, issued_tokens, prev_call, notClient>>

Next == Call \/ GetHeaders \/ LoginRequest \/ QueryRequest \/ PageRequest

Spec == Init /\ [][Next]_vars

\* -------------------------------------------------------------- StableSpec
\* The client against a stable backend.  The code runs on once it is called
\* and every request is answered, so the steps of a call are taken (weak
\* fairness); whether another call is made is up to the caller.
StableInit == ClientUnused /\ WrapperUnused /\ backend \in StableBackends /\ ThreadsUnused

StableSpec ==
    /\ StableInit
    /\ [][Next]_vars
    /\ WF_vars(GetHeaders)
    /\ WF_vars(LoginRequest)
    /\ WF_vars(QueryRequest)
    /\ WF_vars(PageRequest)

\* ---------------------------------------------------------------- ConcSpec
\* Callers that share one FormantClient and run _get_authenticated_headers
\* concurrently, the login endpoint answering 200.  The code takes no lock:
\* the callers interleave between the check of the cache (line 73), the
\* sending of the login request (line 82), its answer and the assignment of
\* the headers (lines 86-92), and the return of the headers (line 103).
ConcInit == ClientUnused /\ WrapperUnused /\ backend \in StableBackends /\ ThreadsUnused

\* what the callers do not touch
notThreads == <<retryVars, backend, op, args, pc, i_call, i_auth, page_offset, task_summaries,
                result, calls, call_logins, call_requests, call_warnings, returned_headers,
                attempt_pages, attempt_offsets, caught, prev_call>>

\* caller t calls _get_authenticated_headers, which calls _authenticate
ThreadEnter(t) ==
    /\ t_pc[t] = "idle"
    /\ t_calls[t] < MaxHeaderRequests
    /\ t_pc' = [t_pc EXCEPT ![t] = "check"]
    /\ t_calls' = [t_calls EXCEPT ![t] = @ + 1]
    /\ UNCHANGED <<authenticated_headers, login_requests, login_ok, issued_tokens,
                   last_exchange, t_logins, t_got, notThreads>>

\* line 73: caller t reads the cache
ThreadCheck(t) ==
    /\ t_pc[t] = "check"
    /\ t_pc' = [t_pc EXCEPT ![t] = IF Cached(authenticated_headers) THEN "return" ELSE "post"]
    /\ UNCHANGED <<authenticated_headers, login_requests, login_ok, issued_tokens,
                   last_exchange, t_calls, t_logins, t_got, notThreads>>

\* lines 76-84: caller t sends the login request
ThreadPost(t) ==
    /\ t_pc[t] = "post"
    /\ t_pc' = [t_pc EXCEPT ![t] = "wait"]
    /\ t_logins' = [t_logins EXCEPT ![t] = @ + 1]
    /\ login_requests' = login_requests + 1
    /\ UNCHANGED <<authenticated_headers, login_ok, issued_tokens, last_exchange,
                   t_calls, t_got, notThreads>>

\* lines 86-92: the login request of caller t is answered 200 and t stores the headers
ThreadReceive(t) ==
    /\ t_pc[t] = "wait"
    /\ \E resp \in LoginAnswers(backend) :
         /\ Authenticate(resp).kind = "return"
         /\ authenticated_headers' = Headers(resp.json.authentication.accessToken)
         /\ issued_tokens' = issued_tokens \cup {resp.json.authentication.accessToken}
         /\ last_exchange' = [endpoint |-> "/auth/login", headers |-> <<>>,
                              body |-> LoginBody, response |-> resp]
    /\ login_ok' = login_ok + 1
    /\ t_pc' = [t_pc EXCEPT ![t] = "return"]
    /\ UNCHANGED <<login_requests, t_calls, t_logins, t_got, notThreads>>

\* line 103: caller t is returned the headers
ThreadReturn(t) ==
    /\ t_pc[t] = "return"
    /\ t_got' = [t_got EXCEPT ![t] = authenticated_headers]
    /\ t_pc' = [t_pc EXCEPT ![t] = "idle"]
    /\ UNCHANGED <<authenticated_headers, login_requests, login_ok, issued_tokens,
                   last_exchange, t_calls, t_logins, notThreads>>

ConcNext ==
    \E t \in Threads :
        \/ ThreadEnter(t)
        \/ ThreadCheck(t)
        \/ ThreadPost(t)
        \/ ThreadReceive(t)
        \/ ThreadReturn(t)

ConcSpec == ConcInit /\ [][ConcNext]_vars

\* ------------------------------------------------------ claims: RetrySpec

\* C1: when the operation fails retryably on its first k < n invocations and
\* succeeds on invocation k+1, the wrapper returns that value, the operation
\* has been invoked exactly k+1 times and exactly k warnings were logged.
C1_SuccessAfterKFailures ==
    (func_out.kind = "return") =>
        /\ w_pc = "done"
        /\ w_out = func_out
        /\ retryable_failures < max_retries
        /\ func_calls = retryable_failures + 1
        /\ warnings = retryable_failures

C1_Witness ==
    /\ w_pc = "done"
    /\ func_out.kind = "return"
    /\ retryable_failures = 2
    /\ max_retries > 3

\* C2: when the operation fails retryably on all n invocations it has been
\* invoked exactly n times and the wrapper has ended: with propegrate_error it
\* raises a FormantClientRequestError stating the exhaustion, without it it
\* returns None.
C2_Exhaustion ==
    (retryable_failures = max_retries) =>
        /\ w_pc = "done"
        /\ func_calls = max_retries
        /\ propegrate_error =>
             /\ w_out.kind = "raise"
             /\ w_out.exc.type = "FormantClientRequestError"
             /\ w_out.exc.message = <<"Request failed after ", ToString(max_retries), " retries">>
        /\ ~propegrate_error => w_out = [kind |-> "return", value |-> "None"]

C2_Witness ==
    /\ retryable_failures = max_retries
    /\ max_retries = 1
    /\ ~propegrate_error
    /\ w_out.kind = "return"

\* C3: when the operation fails with a non-retryable FormantClientRequestError
\* on attempt j (after j-1 retryable failures) the wrapper stops there: j
\* invocations, that same error raised, no warning logged for attempt j.
C3_NonRetryableStops ==
    (func_out.kind = "raise" /\ func_out.exc.type = "FormantClientRequestError"
        /\ ~func_out.exc.retryable) =>
        /\ w_pc = "done"
        /\ w_out = func_out
        /\ func_calls = retryable_failures + 1
        /\ func_calls <= max_retries
        /\ warnings = func_calls - 1

C3_Witness ==
    /\ w_pc = "done"
    /\ func_out.kind = "raise"
    /\ func_out.exc.type = "FormantClientRequestError"
    /\ ~func_out.exc.retryable
    /\ func_calls = 2

\* ----------------------------------------------------------- claims: Spec

DataEndpoints == {"/devices/query", "/events/query"}

\* the latest HTTP exchange was a data request of the current call to one of
\* endpoints, answered with a status other than 200
FailedAt(endpoints) ==
    /\ call_requests > 0
    /\ pc # "idle"
    /\ last_exchange.endpoint \in endpoints
    /\ last_exchange.response.kind = "response"
    /\ last_exchange.response.status # 200

\* get_task_list_for_device_sync has returned a sequence
TasksReturned ==
    /\ pc = "done"
    /\ op = "get_task_list_for_device_sync"
    /\ result.kind = "return"

TasksRunning ==
    /\ pc \in {"headers", "login", "request"}
    /\ op = "get_task_list_for_device_sync"

RECURSIVE Flatten(_)
Flatten(pages) == IF pages = <<>> THEN <<>> ELSE Head(pages) \o Flatten(Tail(pages))

RECURSIVE SumLen(_)
SumLen(pages) == IF pages = <<>> THEN 0 ELSE Len(Head(pages)) + SumLen(Tail(pages))

PageLens(pages) == [k \in 1..Len(pages) |-> Len(pages[k])]

\* C4: the error the wrapper raises when the retries are exhausted is not
\* retryable, so the wrapper of a public operation that catches the exhaustion
\* error of _authenticate stops at once: the call ends in its first attempt.
C4_ExhaustionNotRetryable ==
    (caught.type = "FormantClientRequestError"
        /\ caught.message = <<"Request failed after ", ToString(NUM_RETRIES), " retries">>) =>
        /\ ~caught.retryable
        /\ pc = "done"
        /\ i_call = 0
        /\ call_logins = NUM_RETRIES

\* C5: while every login request has been answered 200, the first header
\* request issues exactly one POST /auth/login and every later header request,
\* in any call and for any page, issues none and returns the same headers.
C5_SingleLogin ==
    (login_requests = login_ok) =>
        /\ login_requests <= 1
        /\ returned_headers # {} => login_requests = 1
        /\ returned_headers \subseteq {authenticated_headers}

C5_Witness ==
    /\ login_requests = login_ok
    /\ login_requests = 1
    /\ calls = 2
    /\ TasksReturned
    /\ Len(attempt_offsets) = 3
    /\ returned_headers = {authenticated_headers}

\* C6: when a data request sent with the cached headers is answered 401, the
\* cached headers are cleared.
C6_InvalidatedOnAuthFailure ==
    (FailedAt(DataEndpoints) /\ last_exchange.response.status = 401) =>
        ~Cached(authenticated_headers)

\* C7: a traversal requests the offsets 0, P, 2P, ... and stops exactly at the
\* first page of fewer than P items: it goes on while the pages are full, and
\* when it returns the number of requests is the index of the first short page.
C7_StopsAtFirstShortPage ==
    /\ (TasksRunning \/ TasksReturned) =>
         /\ \A k \in 1..Len(attempt_offsets) : attempt_offsets[k] = (k - 1) * page_size
         /\ \A k \in 1..Len(attempt_pages) :
              k < Len(attempt_offsets) => Len(attempt_pages[k]) = page_size
    /\ TasksRunning =>
         /\ Len(attempt_offsets) = Len(attempt_pages)
         /\ \A k \in 1..Len(attempt_pages) : Len(attempt_pages[k]) = page_size
         /\ page_offset = Len(attempt_pages) * page_size
    /\ TasksReturned =>
         /\ Len(attempt_offsets) = Len(attempt_pages)
         /\ Len(attempt_pages) >= 1
         /\ Len(attempt_pages[Len(attempt_pages)]) < page_size
         /\ PageLens(attempt_pages) = <<100, 100, 37>> => Len(attempt_offsets) = 3
         /\ PageLens(attempt_pages) = <<0>> => Len(attempt_offsets) = 1
         /\ PageLens(attempt_pages) = <<100, 100, 100, 0>> => Len(attempt_offsets) = 4

C7_Witness ==
    /\ TasksReturned
    /\ PageLens(attempt_pages) = <<100, 100, 100, 0>>
    /\ attempt_offsets = <<0, 100, 200, 300>>

\* C8: the sequence get_task_list_for_device_sync returns is the
\* concatenation, in request order, of the pages of the traversal that
\* completed: no item dropped or duplicated, also after failed attempts.
C8_ResultIsConcatenation ==
    TasksReturned =>
        /\ result.value = Flatten(attempt_pages)
        /\ Len(result.value) = SumLen(attempt_pages)
        \* the items of the backend are numbered in order: increasing means
        \* in order and without repetition
        /\ \A a \in 1..(Len(result.value) - 1) : result.value[a] < result.value[a + 1]

C8_Witness ==
    /\ TasksReturned
    /\ i_call > 0
    /\ PageLens(attempt_pages) = <<100, 100, 50>>
    /\ Len(result.value) = 250

\* C9: when a page request is answered with a status other than 200, the
\* attempt fails with a FormantClientRequestError: the wrapper catches it, and
\* an error the call ends with is a FormantClientRequestError.
C9_PageFailureClassified ==
    FailedAt({"/events/query"}) =>
        /\ caught.type = "FormantClientRequestError"
        /\ pc = "done" =>
             /\ result.kind = "raise"
             /\ result.exc.type = "FormantClientRequestError"

\* C10: when a page request is answered with a status other than 200, the
\* call ends only if that was the last of the NUM_RETRIES attempts; otherwise
\* the traversal has been restarted at offset 0 with an empty accumulator.
C10_TraversalRestarted ==
    FailedAt({"/events/query"}) =>
        IF pc = "done"
        THEN i_call = NUM_RETRIES - 1
        ELSE /\ i_call > 0
             /\ page_offset = 0
             /\ task_summaries = <<>>
             /\ attempt_offsets = <<>>

\* the latest HTTP exchange was a devices/query request of the current call
QueryAnswered ==
    /\ call_requests > 0
    /\ pc # "idle"
    /\ last_exchange.endpoint = "/devices/query"
    /\ last_exchange.response.kind = "response"

\* ... answered 200 with a body that has no items
QueryMalformed ==
    /\ QueryAnswered
    /\ last_exchange.response.status = 200
    /\ "items" \notin DOMAIN last_exchange.response.json

\* the latest HTTP exchange belongs to the current call
ExchangeOfCall ==
    /\ pc # "idle"
    /\ \/ last_exchange.endpoint = "/auth/login" /\ call_logins > 0
       \/ last_exchange.endpoint \in DataEndpoints /\ call_requests > 0

Contains(message, text) == \E k \in 1..Len(message) : message[k] = text

\* C11 as stated: when devices/query answers 200 with a body without items,
\* query_robots raises a non-retryable error after exactly one devices/query
\* request.
C11_MalformedIsFatal ==
    QueryMalformed =>
        /\ pc = "done"
        /\ result.kind = "raise"
        /\ result.exc.type = "FormantClientRequestError"
        /\ ~result.exc.retryable
        /\ call_requests = 1

\* C11 amended: a devices/query answer that is a 200 without items or a status
\* other than 200 fails the attempt retryably: the wrapper catches a retryable
\* FormantClientRequestError and issues the request again, until the call ends
\* with the exhaustion error after its NUM_RETRIES-th attempt; at most
\* NUM_RETRIES devices/query requests are issued.
C11_QueryFailuresRetried ==
    (QueryAnswered /\ (QueryMalformed \/ last_exchange.response.status # 200)) =>
        /\ caught.type = "FormantClientRequestError"
        /\ caught.retryable
        /\ caught.message[1] = (IF QueryMalformed THEN "Failed to query robots: "
                                                  ELSE "Failed to query robots... ")
        /\ call_requests <= NUM_RETRIES
        /\ IF pc = "done"
           THEN /\ i_call = NUM_RETRIES - 1
                /\ result.kind = "raise"
                /\ result.exc.message = <<"Request failed after ", ToString(NUM_RETRIES), " retries">>
           ELSE i_call > 0

C11_Witness ==
    /\ QueryMalformed
    /\ pc = "done"
    /\ call_requests = NUM_RETRIES

\* C12: when the transport raises during a login, a devices/query or a page
\* request, the failure is retryable: the call does not end there with the
\* transport's exception, it ends only with a FormantClientRequestError when
\* the retries are used up.
C12_TransportFailureRetried ==
    (ExchangeOfCall /\ last_exchange.response.kind = "raise") =>
        (pc = "done" =>
            /\ result.kind = "raise"
            /\ result.exc.type = "FormantClientRequestError")

\* C13: when a public call ends with an error after the backend answered a
\* status other than 200, the message of the error holds the text of that
\* response.
C13_DiagnosticTextRetained ==
    (ExchangeOfCall /\ pc = "done" /\ result.kind = "raise"
        /\ last_exchange.response.kind = "response"
        /\ last_exchange.response.status # 200) =>
        Contains(result.exc.message, last_exchange.response.text)

\* C17: while the login endpoint answers a status other than 200, one public
\* call issues at most NUM_RETRIES login requests and no data request, and
\* has ended with an error once NUM_RETRIES login requests were issued.
C17_LoginBudget ==
    (ExchangeOfCall /\ last_exchange.endpoint = "/auth/login"
        /\ last_exchange.response.kind = "response"
        /\ last_exchange.response.status # 200) =>
        /\ call_logins <= NUM_RETRIES
        /\ call_requests = 0
        /\ call_logins = NUM_RETRIES => (pc = "done" /\ result.kind = "raise")

\* C18: when a call of the wrapper has ended, the number of warnings logged
\* is the number of times the operation was invoked again after a failure.
C18_WarningPerRetry ==
    (w_pc = "done") => warnings = func_calls - 1

\* -------------------------------------------------------- claims: StableSpec

\* C14: against a backend that holds N events and answers the page request at
\* offset o with min(100, max(0, N - o)) items, get_task_list_for_device_sync
\* eventually returns, and it returns after exactly floor(N / 100) + 1 page
\* requests.
C14_Terminates ==
    /\ [](TasksReturned => Len(attempt_offsets) = (backend.events \div page_size) + 1)
    /\ (TasksRunning ~> TasksReturned)

C14_Witness ==
    /\ TasksReturned
    /\ backend.events = 250
    /\ Len(attempt_offsets) = 3
    /\ Len(result.value) = 250

\* C16: a query_robots call that follows a query_robots call with the same
\* tags and enabled_only, against a backend whose state does not change and
\* which answers 200, returns the same ordered result and has sent the same
\* request body, whether or not the headers were cached before the first call.
C16_QueryIdempotent ==
    (pc = "done" /\ op = "query_robots" /\ prev_call.op = "query_robots"
        /\ prev_call.args = args) =>
        /\ result.kind = "return"
        /\ result = prev_call.result
        /\ last_exchange.endpoint = "/devices/query"
        /\ last_exchange.body = prev_call.body

C16_Witness ==
    /\ pc = "done"
    /\ op = "query_robots"
    /\ prev_call.op = "query_robots"
    /\ prev_call.args = args
    /\ args.enabled_only
    /\ prev_call.logins = 1
    /\ call_logins = 0
    /\ result.value = <<"dev-1", "dev-2">>

\* ----------------------------------------------------- claims: Spec (cont.)

\* C15: a public call returns a value only if the data requests of its final
\* attempt were all answered 200 with items: the value of query_robots is the
\* items of that answer, the value of get_task_list_for_device_sync holds a
\* page for every offset the attempt requested.
C15_NoPartialSuccess ==
    (pc = "done" /\ result.kind = "return") =>
        /\ ExchangeOfCall
        /\ last_exchange.endpoint \in DataEndpoints
        /\ last_exchange.response.kind = "response"
        /\ last_exchange.response.status = 200
        /\ "items" \in DOMAIN last_exchange.response.json
        /\ op = "query_robots" => result.value = last_exchange.response.json.items
        /\ op = "get_task_list_for_device_sync" =>
             /\ Len(attempt_pages) = Len(attempt_offsets)
             /\ result.value = Flatten(attempt_pages)

C15_Witness ==
    /\ pc = "done"
    /\ result.kind = "return"
    /\ op = "get_task_list_for_device_sync"
    /\ i_call = 2
    /\ Len(attempt_offsets) = 2

\* C20: the cached headers are non-empty only if a login was answered 200, and
\* then hold the bearer token of such a login; every data request is sent
\* with such headers.
C20_NoRequestBeforeLogin ==
    /\ login_ok = 0 => authenticated_headers = <<>>
    /\ Cardinality(DOMAIN authenticated_headers) > 0 =>
         \E t \in issued_tokens : authenticated_headers["authorization"] = <<"Bearer ", t>>
    /\ pc = "request" => Cardinality(DOMAIN authenticated_headers) > 0
    /\ last_exchange.endpoint \in DataEndpoints =>
         /\ Cardinality(DOMAIN last_exchange.headers) > 0
         /\ \E t \in issued_tokens : last_exchange.headers["authorization"] = <<"Bearer ", t>>

C20_Witness ==
    /\ last_exchange.endpoint = "/events/query"
    /\ login_requests > login_ok
    /\ login_ok = 1
    /\ issued_tokens = {"tok2"}
    /\ last_exchange.headers["authorization"] = <<"Bearer ", "tok2">>

\* --------------------------------------------------------- claims: ConcSpec

\* callers between their check of the cache and the storing of the headers
LoggingIn == {t \in Threads : t_pc[t] \in {"post", "wait"}}

\* C19 as stated: the check of the cache and the login that populates it are
\* mutually exclusive, so at most one POST /auth/login is issued.
C19_SingleConcurrentLogin ==
    /\ Cardinality(LoggingIn) <= 1
    /\ login_requests <= 1

\* C19 amended: nothing excludes two callers from both finding the cache
\* empty, so each caller may log in; a caller logs in at most once, so at most
\* one POST /auth/login per caller is issued.
C19_OneLoginPerCaller ==
    /\ \A t \in Threads : t_logins[t] <= 1
    /\ login_requests <= Cardinality(Threads)
    /\ \A t \in Threads : t_pc[t] \in {"post", "wait"} => t_logins[t] = (IF t_pc[t] = "wait" THEN 1 ELSE 0)

C19_Witness ==
    /\ login_requests = 2
    /\ t_logins[1] = 1
    /\ t_logins[2] = 1
    /\ t_calls[1] = 2
    /\ t_pc[1] = "idle"
    /\ t_got[1] # <<>>

====
